---- MODULE Spec2Model ----
(***************************************************************************)
(* State-machine model of SublimeDeclarativeSettings.py: the               *)
(* DeclarativeSettingsMixin bound to one object, together with the host    *)
(* collaborators it drives (settings stores, on-change registry, deferred  *)
(* callbacks, the API_READY flag and the process clock).                   *)
(***************************************************************************)
EXTENDS Integers, Sequences, FiniteSets, Bags, TLC

VARIABLES
    API_READY,              \* module global API_READY
    setting_entries,        \* the class attribute: the declared entry tree
    arg_entry_tree,         \* the entry_tree argument the plugin's calls pass
    arg_auto_update,        \* the auto_update argument the plugin's calls pass
    arg_sparse_update,      \* the sparse_update argument the plugin's calls pass
    settings_obj,           \* self._settings_obj: "unset", "None" or a store name
    attrs,                  \* the object's attributes bound by setattr
    settings_update_time,   \* self._settings_update_time: -1 while it does not exist
    stores,                 \* host: contents of every settings store
    handlers,               \* host: on-change registry, store/token -> callback
    adds,                   \* host: number of add_on_change calls per store/token
    notif,                  \* host: change notifications not yet delivered
    timers,                 \* host: bag of callbacks pending in set_timeout
    clock,                  \* host: the value time.clock() returned last
    rewalks,                \* clock values at which a notification re-walked the tree
    calls,                  \* number of load_settings calls made by the plugin
    edits,                  \* number of external edits of the stores
    last                    \* observation of the most recent operation

\* What the plugin's source fixes.
declared == << setting_entries, arg_entry_tree, arg_auto_update, arg_sparse_update >>

vars == << API_READY, setting_entries, arg_entry_tree, arg_auto_update,
           arg_sparse_update, settings_obj, attrs, settings_update_time, stores,
           handlers, adds, notif, timers, clock, rewalks, calls, edits, last >>

----------------------------------------------------------------------------
(* Bounds of the model. *)

MaxCalls == 2
MaxEdits == 1
MaxTime == 2

----------------------------------------------------------------------------
(* Python values.  Every value is a record of one shape: t is the type, s  *)
(* the characters of a str (or the numeral of an int), items the elements  *)
(* of a tuple or list.                                                     *)

PyStr(cs) == [t |-> "str", s |-> cs, items |-> << >>]
PyInt(n) == [t |-> "int", s |-> << n >>, items |-> << >>]
PyTuple(xs) == [t |-> "tuple", s |-> << >>, items |-> xs]
PyList(xs) == [t |-> "list", s |-> << >>, items |-> xs]
Ellipsis == [t |-> "ellipsis", s |-> << >>, items |-> << >>]
None == [t |-> "NoneType", s |-> << >>, items |-> << >>]
\* Marks an attribute that does not exist, or a key a store does not hold.
Missing == [t |-> "missing", s |-> << >>, items |-> << >>]

\* len(v) is defined for str, tuple and list; it raises TypeError otherwise.
HasLen(v) == v.t \in {"str", "tuple", "list"}
PyLen(v) == IF v.t = "str" THEN Len(v.s) ELSE Len(v.items)
\* Iterating or indexing a str yields its one-character strs.
Elems(v) == IF v.t = "str" THEN [i \in 1..Len(v.s) |-> PyStr(<< v.s[i] >>)] ELSE v.items

----------------------------------------------------------------------------
(* The inputs: leaves, malformed nodes and entry trees. *)

LeafA == PyTuple(<< PyStr(<< "a" >>), PyStr(<< "k" >>), PyInt("0") >>)
\* '' as the key: the attribute name is the key.
LeafK == PyTuple(<< PyStr(<< "k" >>), PyStr(<< >>), PyInt("1") >>)
\* Ellipsis as the key; names the same attribute as LeafA.
LeafA2 == PyTuple(<< PyStr(<< "a" >>), Ellipsis, PyInt("2") >>)
Str3 == PyStr(<< "a", "b", "c" >>)
Int5 == PyInt("5")
List1 == PyList(<< Int5 >>)

EntryTrees ==
    { PyTuple(<< >>),
      LeafA,
      PyTuple(<< LeafA, LeafK >>),
      PyTuple(<< LeafK, PyTuple(<< LeafA2 >>) >>),
      PyTuple(<< LeafA, LeafK, LeafA2 >>),
      PyTuple(<< LeafK, Str3, LeafA >>),
      PyTuple(<< LeafK, Int5, LeafA >>),
      PyTuple(<< LeafA, PyTuple(<< List1, LeafK >>) >>) }

\* Trees a caller passes as entry_tree instead of the declared one.
GivenTrees == { PyTuple(<< LeafK, LeafA >>) }

Files == { "S1", "S2" }
AttrNames == { << "a" >>, << "k" >> }
Keys == { << "k" >>, << "a" >> }
StoreValues == { PyInt("8") }

InitStores ==
    [f \in Files |->
        [k \in Keys |->
            IF f = "S1" /\ k = << "k" >> THEN PyInt("8")
            ELSE IF f = "S2" /\ k = << "a" >> THEN PyInt("8")
            ELSE Missing]]

----------------------------------------------------------------------------
(* Errors a call can end with. *)

NoErr == [type |-> "none", msg |-> "", value |-> None]
\* TypeError of line 131: the message holds pformat(entry).
BadEntry(e) == [type |-> "TypeError", msg |-> "Bad setting entry type", value |-> e]
\* TypeError of len() on a value without a length; the message names the type only.
NoLenErr == [type |-> "TypeError", msg |-> "object has no len()", value |-> None]
\* TypeError of a call whose argument count does not fit the signature.
ArgCountErr == [type |-> "TypeError", msg |-> "wrong number of arguments", value |-> None]
AttributeErr == [type |-> "AttributeError", msg |-> "no such attribute", value |-> None]


----------------------------------------------------------------------------
(* Host collaborators. *)

\* store.get(key, default) on the store named f.
StoreGet(f, key, default) ==
    IF key.t = "str" /\ key.s \in Keys /\ stores[f][key.s] # Missing
    THEN stores[f][key.s]
    ELSE default

\* A callback handed to add_on_change: the per-leaf closure of line 119
\* (kind "sparse", holding its entry) or the shared update_handler of lines
\* 100-103 (kind "shared", holding the arguments of its __reload_settings call).
SparseCallback(entry) ==
    [kind |-> "sparse", entry |-> entry, tree |-> None, install |-> FALSE, sparse |-> FALSE]
SharedCallback(tree, install, sparse) ==
    [kind |-> "shared", entry |-> None, tree |-> tree, install |-> install, sparse |-> sparse]

\* store.add_on_change(token, callback): the callback registered under the
\* token replaces an earlier one under the same token of the same store.
AddOnChange(f, token, cb, m) ==
    [m EXCEPT
        !.handlers = { h \in @ : ~(h.store = f /\ h.token = token) }
                        \cup { [store |-> f, token |-> token, cb |-> cb] },
        !.adds = @ (+) SetToBag({ << f, token >> })]

\* A callback handed to sublime.set_timeout with its delay.
LoaderTimer(file, etree, auto, sparse) ==
    [kind |-> "loader", file |-> file, etree |-> etree, auto |-> auto,
     sparse |-> sparse, delay |-> 500]
ReloadTimer ==
    [kind |-> "reload", file |-> "", etree |-> None, auto |-> FALSE,
     sparse |-> FALSE, delay |-> 2]
SetTimeout(cb, m) == [m EXCEPT !.timers = @ (+) SetToBag({ cb })]

----------------------------------------------------------------------------
(* The mixin.  An execution is threaded through a record m holding the     *)
(* object's fields and the host state it touches, and what the execution   *)
(* did: err the exception it ended with, walk the entries handed to        *)
(* process_setting_entry in order, ret the last value that method returned.*)

Machine ==
    [sobj |-> settings_obj, attrs |-> attrs, update_time |-> settings_update_time,
     handlers |-> handlers, adds |-> adds, timers |-> timers,
     now |-> clock, err |-> NoErr, walk |-> << >>, ret |-> Missing, reloads |-> 0]

\* process_setting_entry binding nothing while there is no store.
process_setting_entry_NoDefault(entry, m) ==
    LET attribute == Elems(entry)[1]
        key0 == Elems(entry)[2]
        default == Elems(entry)[3]
        key == IF key0 = PyStr(<< >>) \/ key0 = Ellipsis THEN attribute ELSE key0
    IN  IF m.sobj = "None"
        THEN [m EXCEPT !.ret = key, !.walk = Append(@, entry)]
        ELSE [m EXCEPT !.attrs[attribute.s] = StoreGet(m.sobj, key, default),
                       !.ret = key,
                       !.walk = Append(@, entry)]

\* process_setting_entry binding the default whatever the store holds.
process_setting_entry_DefaultOnly(entry, m) ==
    LET attribute == Elems(entry)[1]
        key0 == Elems(entry)[2]
        default == Elems(entry)[3]
        key == IF key0 = PyStr(<< >>) \/ key0 = Ellipsis THEN attribute ELSE key0
    IN  [m EXCEPT !.attrs[attribute.s] = default,
                  !.ret = key,
                  !.walk = Append(@, entry)]

\* process_setting_entry looking the key up as written, sentinel or not.
process_setting_entry_RawKey(entry, m) ==
    LET attribute == Elems(entry)[1]
        key == Elems(entry)[2]
        default == Elems(entry)[3]
        value == IF m.sobj = "None" THEN default ELSE StoreGet(m.sobj, key, default)
    IN  [m EXCEPT !.attrs[attribute.s] = value,
                  !.ret = key,
                  !.walk = Append(@, entry)]

\* process_setting_entry, lines 85-93.
process_setting_entry(entry, m) ==
    LET attribute == Elems(entry)[1]
        key0 == Elems(entry)[2]
        default == Elems(entry)[3]
        key == IF key0 = PyStr(<< >>) \/ key0 = Ellipsis THEN attribute ELSE key0
        value == IF m.sobj = "None" THEN default ELSE StoreGet(m.sobj, key, default)
    IN  [m EXCEPT !.attrs[attribute.s] = value,
                  !.ret = key,
                  !.walk = Append(@, entry)]

\* _is_setting_entry without the test of the first element.
is_setting_entry_AnyThree(entry) == PyLen(entry) = 3

\* _is_setting_entry, lines 105-109 (len(entry) is known to be defined).
is_setting_entry(entry) ==
    /\ PyLen(entry) = 3
    /\ Elems(entry)[1].t = "str"

RECURSIVE load_entry(_, _, _, _, _)
RECURSIVE load_entries(_, _, _, _, _, _)

\* _load_entry registering a handler whether or not one was asked for.
load_entry_AlwaysInstall(entry, tree, install, sparse, m) ==
    IF m.err # NoErr THEN m
    ELSE IF ~HasLen(entry) THEN [m EXCEPT !.err = NoLenErr]
    ELSE IF is_setting_entry(entry) THEN
        LET p == process_setting_entry(entry, m)
            cb == IF sparse THEN SparseCallback(entry)
                  ELSE SharedCallback(tree, install, sparse)
        IN  AddOnChange(m.sobj, entry, cb, p)
    ELSE IF entry.t = "tuple" THEN load_entries(entry.items, 1, tree, install, sparse, m)
    ELSE [m EXCEPT !.err = BadEntry(entry)]

\* _load_entry, lines 113-136.  An exception raised in a nested call ends
\* every enclosing call.
load_entry(entry, tree, install, sparse, m) ==
    IF m.err # NoErr THEN m
    ELSE IF ~HasLen(entry) THEN [m EXCEPT !.err = NoLenErr]
    ELSE IF is_setting_entry(entry) THEN
        LET p == process_setting_entry(entry, m)
            cb == IF sparse THEN SparseCallback(entry)
                  ELSE SharedCallback(tree, install, sparse)
        IN  IF install THEN AddOnChange(m.sobj, entry, cb, p) ELSE p
    ELSE IF entry.t = "tuple" THEN load_entries(entry.items, 1, tree, install, sparse, m)
    ELSE [m EXCEPT !.err = BadEntry(entry)]

RECURSIVE load_entries_Reverse(_, _, _, _, _, _)
\* The loop visiting the children from the last to the first.
load_entries_Reverse(items, i, tree, install, sparse, m) ==
    IF i > Len(items) \/ m.err # NoErr THEN m
    ELSE load_entries_Reverse(items, i + 1, tree, install, sparse,
                              load_entry(items[Len(items) + 1 - i], tree, install,
                                         sparse, m))

\* The loop of lines 126-127 from its i-th element.
load_entries(items, i, tree, install, sparse, m) ==
    IF i > Len(items) \/ m.err # NoErr THEN m
    ELSE load_entries(items, i + 1, tree, install, sparse,
                      load_entry(items[i], tree, install, sparse, m))

\* __reload_settings, lines 95-139.
reload_settings(entry_tree, install, sparse, m) ==
    load_entry(entry_tree, entry_tree, install, sparse, [m EXCEPT !.reloads = @ + 1])

\* load_settings that never schedules the retry.
load_settings_NoRetry(settings_file, entry_tree, auto_update, sparse_update, m) ==
    LET etree == IF entry_tree = None THEN setting_entries ELSE entry_tree
    IN  IF API_READY
        THEN reload_settings(etree, auto_update, sparse_update,
                             [m EXCEPT !.sobj = settings_file])
        ELSE reload_settings(etree, FALSE, FALSE, [m EXCEPT !.sobj = "None"])

\* load_settings opening the store without looking at API_READY.
load_settings_NoReadyCheck(settings_file, entry_tree, auto_update, sparse_update, m) ==
    LET etree == IF entry_tree = None THEN setting_entries ELSE entry_tree
        r == reload_settings(etree, FALSE, FALSE, [m EXCEPT !.sobj = settings_file])
    IN  IF API_READY
        THEN reload_settings(etree, auto_update, sparse_update,
                             [m EXCEPT !.sobj = settings_file])
        ELSE IF r.err # NoErr THEN r
             ELSE SetTimeout(LoaderTimer(settings_file, etree, auto_update,
                                         sparse_update), r)

\* load_settings opening a store only when the object has none yet.
load_settings_KeepStore(settings_file, entry_tree, auto_update, sparse_update, m) ==
    LET etree == IF entry_tree = None THEN setting_entries ELSE entry_tree
    IN  IF API_READY
        THEN reload_settings(etree, auto_update, sparse_update,
                             [m EXCEPT !.sobj = IF @ \in Files THEN @
                                                ELSE settings_file])
        ELSE LET r == reload_settings(etree, FALSE, FALSE, [m EXCEPT !.sobj = "None"])
             IN  IF r.err # NoErr THEN r
                 ELSE SetTimeout(LoaderTimer(settings_file, etree, auto_update,
                                             sparse_update), r)

\* load_settings scheduling the retry before it walks the tree.
load_settings_RetryOnError(settings_file, entry_tree, auto_update, sparse_update, m) ==
    LET etree == IF entry_tree = None THEN setting_entries ELSE entry_tree
    IN  IF API_READY
        THEN reload_settings(etree, auto_update, sparse_update,
                             [m EXCEPT !.sobj = settings_file])
        ELSE reload_settings(etree, FALSE, FALSE,
                             SetTimeout(LoaderTimer(settings_file, etree, auto_update,
                                                    sparse_update),
                                        [m EXCEPT !.sobj = "None"]))

\* load_settings handing _loader to set_timeout after either branch.
load_settings_RetryAlways(settings_file, entry_tree, auto_update, sparse_update, m) ==
    LET etree == IF entry_tree = None THEN setting_entries ELSE entry_tree
        r == IF API_READY
             THEN reload_settings(etree, auto_update, sparse_update,
                                  [m EXCEPT !.sobj = settings_file])
             ELSE reload_settings(etree, FALSE, FALSE, [m EXCEPT !.sobj = "None"])
    IN  IF r.err # NoErr THEN r
        ELSE SetTimeout(LoaderTimer(settings_file, etree, auto_update, sparse_update), r)

\* load_settings passing its handler options to the walk that binds the
\* defaults.
load_settings_InstallEarly(settings_file, entry_tree, auto_update, sparse_update, m) ==
    LET etree == IF entry_tree = None THEN setting_entries ELSE entry_tree
    IN  IF API_READY
        THEN reload_settings(etree, auto_update, sparse_update,
                             [m EXCEPT !.sobj = settings_file])
        ELSE LET r == reload_settings(etree, auto_update, sparse_update,
                                      [m EXCEPT !.sobj = "None"])
             IN  IF r.err # NoErr THEN r
                 ELSE SetTimeout(LoaderTimer(settings_file, etree, auto_update,
                                             sparse_update), r)

\* load_settings, lines 59-76.
load_settings(settings_file, entry_tree, auto_update, sparse_update, m) ==
    LET etree == IF entry_tree = None THEN setting_entries ELSE entry_tree
    IN  IF API_READY
        THEN reload_settings(etree, auto_update, sparse_update,
                             [m EXCEPT !.sobj = settings_file])
        ELSE LET r == reload_settings(etree, FALSE, FALSE, [m EXCEPT !.sobj = "None"])
             IN  IF r.err # NoErr THEN r
                 ELSE SetTimeout(LoaderTimer(settings_file, etree, auto_update,
                                             sparse_update), r)

\* The number of parameters __delay_reload_settings declares besides self
\* (line 144).
DelayReloadParams == 0

Abs(x) == IF x < 0 THEN -x ELSE x

\* __delay_reload_settings taking update_handler's arguments and re-walking
\* the tree at once, with no look at the time of the last update.
delay_reload_settings_NoDebounce(args, m) ==
    reload_settings(args[1], args[2], args[3], m)

\* __delay_reload_settings, lines 144-150, called with the arguments args
\* when time.clock() returns m.now.
delay_reload_settings(args, m) ==
    IF Len(args) # DelayReloadParams THEN [m EXCEPT !.err = ArgCountErr]
    ELSE IF m.update_time = -1 THEN [m EXCEPT !.err = AttributeErr]
    ELSE IF Abs(m.now - m.update_time) > 2
         THEN SetTimeout(ReloadTimer, [m EXCEPT !.update_time = m.now])
         ELSE m

\* update_handler, lines 100-103.
update_handler(cb, m) ==
    delay_reload_settings(<< cb.tree, cb.install, cb.sparse >>, m)

\* A per-leaf closure that reloads the whole declared tree.
run_handler_WholeTree(cb, m) ==
    IF cb.kind = "sparse" THEN reload_settings(setting_entries, FALSE, FALSE, m)
    ELSE update_handler(cb, m)

\* The callback registered under a token runs: the closure of line 119 or
\* update_handler.
run_handler(cb, m) ==
    IF cb.kind = "sparse" THEN process_setting_entry(cb.entry, m)
    ELSE update_handler(cb, m)

\* The callback resolving against the store it was registered on.
fire_handler_RegisteredStore(h, m) ==
    LET r == run_handler(h.cb, [m EXCEPT !.sobj = h.store])
    IN  [r EXCEPT !.sobj = m.sobj]

\* The host calls the callback registered at line 122 under a token of a
\* store.  Neither closure (line 119, lines 100-103) holds that store: both
\* reach the store through self when they run.
fire_handler(h, m) == run_handler(h.cb, m)

\* A callback of set_timeout runs: _loader (lines 71-74), or the bound
\* method __reload_settings handed over at line 150, which the host calls
\* without the entry_tree argument line 95 requires.
run_timer(cb, m) ==
    IF cb.kind = "loader"
    THEN load_settings(cb.file, cb.etree, cb.auto, cb.sparse, m)
    ELSE [m EXCEPT !.err = ArgCountErr]


----------------------------------------------------------------------------
(* The state machine. *)

\* What an operation leaves in the object and the host.
Commit(m) ==
    /\ settings_obj' = m.sobj
    /\ attrs' = m.attrs
    /\ settings_update_time' = m.update_time
    /\ handlers' = m.handlers
    /\ adds' = m.adds
    /\ timers' = m.timers

\* The observation of an operation: its kind and inputs, the readiness it
\* saw, and what the execution m did.  sched counts the callbacks it handed
\* to set_timeout; before and time are the clock's previous and current value.
Observe(op, file, tree, auto, sparse, cb, before, m) ==
    [op |-> op, ready |-> API_READY, file |-> file, tree |-> tree, auto |-> auto,
     sparse |-> sparse, cb |-> cb, err |-> m.err, walk |-> m.walk, ret |-> m.ret,
     sched |-> BagCardinality(m.timers) - BagCardinality(before),
     before |-> clock, time |-> m.now]

NoCallback == SharedCallback(None, FALSE, FALSE)
NoOp == [op |-> "init", ready |-> FALSE, file |-> "", tree |-> None, auto |-> FALSE,
         sparse |-> FALSE, cb |-> NoCallback, err |-> NoErr, walk |-> << >>,
         ret |-> Missing, sched |-> 0, before |-> 0, time |-> 0]

Init ==
    /\ API_READY = FALSE
    /\ setting_entries \in EntryTrees
    /\ arg_entry_tree \in { None } \cup GivenTrees
    /\ arg_auto_update \in BOOLEAN
    /\ arg_sparse_update \in BOOLEAN
    /\ settings_obj = "unset"
    /\ attrs = [a \in AttrNames |-> Missing]
    /\ settings_update_time = -1
    /\ stores = InitStores
    /\ handlers = {}
    /\ adds = EmptyBag
    /\ notif = {}
    /\ timers = EmptyBag
    /\ clock = 0
    /\ rewalks = << >>
    /\ calls = 0
    /\ edits = 0
    /\ last = NoOp

\* plugin_loaded, lines 9-11: the host calls the hook once.
plugin_loaded ==
    /\ ~API_READY
    /\ API_READY' = TRUE
    /\ last' = [NoOp EXCEPT !.op = "plugin_loaded", !.ready = TRUE,
                             !.before = clock, !.time = clock]
    /\ UNCHANGED << declared, settings_obj, attrs, settings_update_time, stores,
                    handlers, adds, notif, timers, clock, rewalks, calls, edits >>

\* The plugin calls load_settings for any settings file, with the entry
\* tree and the options of its call site.
CallLoadSettings ==
    \E file \in Files :
        \E m \in { load_settings(file, arg_entry_tree, arg_auto_update,
                                 arg_sparse_update, Machine) } :
            LET etree == IF arg_entry_tree = None THEN setting_entries
                         ELSE arg_entry_tree
            IN  /\ calls < MaxCalls
                /\ calls' = calls + 1
                /\ Commit(m)
                /\ last' = Observe("load", file, etree, arg_auto_update,
                                   arg_sparse_update, NoCallback, timers, m)
                /\ UNCHANGED << API_READY, declared, stores, notif, clock, rewalks,
                                edits >>

\* The host runs a callback pending in set_timeout.
TimerFire ==
    \E cb \in BagToSet(timers) :
        \E rest \in { timers (-) SetToBag({ cb }) } :
            \E m \in { run_timer(cb, [Machine EXCEPT !.timers = rest]) } :
                /\ Commit(m)
                /\ rewalks' = IF cb.kind = "reload" /\ m.reloads > 0
                              THEN Append(rewalks, clock) ELSE rewalks
                /\ last' = Observe(IF cb.kind = "loader" THEN "retry" ELSE "reload",
                                   cb.file, cb.etree, cb.auto, cb.sparse, NoCallback,
                                   rest, m)
                /\ UNCHANGED << API_READY, declared, stores, notif, clock, calls,
                                edits >>

\* Something outside the plugin edits a key of a store; the host owes a
\* notification to every handler registered on that store.
StoreEdit ==
    \E f \in Files, k \in Keys, v \in StoreValues \cup { Missing } :
        /\ edits < MaxEdits
        /\ stores[f][k] # v
        /\ edits' = edits + 1
        /\ stores' = [stores EXCEPT ![f][k] = v]
        /\ notif' = notif \cup { << h.store, h.token >> :
                                    h \in { g \in handlers : g.store = f } }
        /\ last' = [NoOp EXCEPT !.op = "edit", !.ready = API_READY, !.file = f,
                                 !.before = clock, !.time = clock]
        /\ UNCHANGED << API_READY, declared, settings_obj, attrs,
                        settings_update_time, handlers, adds, timers, clock, 
                        rewalks, calls >>

\* The host delivers a change notification: the callback registered under
\* the token runs.  Time has passed since the clock was read last; only
\* update_handler's callee reads it.
Notify ==
    \E n \in notif :
        \E h \in { g \in handlers : g.store = n[1] /\ g.token = n[2] } :
            \E now \in IF h.cb.kind = "shared" THEN clock..MaxTime ELSE { clock } :
                \E m \in { fire_handler(h, [Machine EXCEPT !.now = now]) } :
                    /\ notif' = notif \ { n }
                    /\ clock' = now
                    /\ Commit(m)
                    /\ rewalks' = IF m.reloads > 0 THEN Append(rewalks, now) ELSE rewalks
                    /\ last' = Observe("notify", h.store, h.cb.tree, h.cb.install,
                                       h.cb.sparse, h.cb, timers, m)
                    /\ UNCHANGED << API_READY, declared, stores, calls, edits >>

Next ==
    \/ plugin_loaded
    \/ CallLoadSettings
    \/ TimerFire
    \/ StoreEdit
    \/ Notify

Spec == Init /\ [][Next]_vars


\* The host runs set_timeout callbacks when their delay is over, and calls
\* the plugin_loaded hook once its API is up.
FairSpec == Spec /\ WF_vars(plugin_loaded) /\ WF_vars(TimerFire)

----------------------------------------------------------------------------
(* Notions the properties are stated with. *)

\* A leaf: a 3-element tuple (attribute name, key, default).
IsLeafNode(n) == n.t = "tuple" /\ Len(n.items) = 3 /\ n.items[1].t = "str"
LeafAttr(e) == Elems(e)[1].s
LeafKey(e) == Elems(e)[2]
LeafDefault(e) == Elems(e)[3]
\* The key a leaf is looked up under: its attribute name when the key is
\* the omitted-key sentinel.
ResolvedKey(e) ==
    IF LeafKey(e) \in { PyStr(<< >>), Ellipsis } THEN Elems(e)[1] ELSE LeafKey(e)
\* store.get(key, default) of a leaf on the store f; the default without a store.
Expected(f, e) ==
    IF f \in Files THEN StoreGet(f, ResolvedKey(e), LeafDefault(e)) ELSE LeafDefault(e)

RECURSIVE WalkOrder(_)
RECURSIVE WalkOrderFrom(_, _)
\* The leaves of a tree in depth-first, left-to-right order up to its first
\* malformed node (neither a leaf nor a nested tuple), and that node
\* (Missing when there is none).
WalkOrder(n) ==
    IF IsLeafNode(n) THEN [leaves |-> << n >>, bad |-> Missing]
    ELSE IF n.t = "tuple" THEN WalkOrderFrom(n.items, 1)
    ELSE [leaves |-> << >>, bad |-> n]
WalkOrderFrom(items, i) ==
    IF i > Len(items) THEN [leaves |-> << >>, bad |-> Missing]
    ELSE LET h == WalkOrder(items[i])
         IN  IF h.bad # Missing THEN h
             ELSE LET r == WalkOrderFrom(items, i + 1)
                  IN  [leaves |-> h.leaves \o r.leaves, bad |-> r.bad]

Leaves(tree) == WalkOrder(tree).leaves
ValidTree(tree) == WalkOrder(tree).bad = Missing
\* The i-th leaf is the last one in walk order that names its attribute.
LastForAttr(ls, i) == \A j \in (i + 1)..Len(ls) : LeafAttr(ls[j]) # LeafAttr(ls[i])

IsLoad == last.op \in { "load", "retry" }
LoadedNotReady == IsLoad /\ ~last.ready /\ ValidTree(last.tree)
LoadedReady == IsLoad /\ last.ready /\ ValidTree(last.tree)


----------------------------------------------------------------------------
(* C1 *)

\* C1 as stated: after a load_settings call that found the host not ready,
\* every leaf's attribute equals that leaf's own default.
C1_EveryLeafOwnDefault ==
    (last.op = "load" /\ ~last.ready /\ ValidTree(last.tree)) =>
        \A i \in DOMAIN Leaves(last.tree) :
            attrs[LeafAttr(Leaves(last.tree)[i])] = LeafDefault(Leaves(last.tree)[i])

\* C1, amended: after a load_settings execution that found the host not
\* ready, every attribute a leaf of the valid tree names exists, and it
\* equals the default of the last leaf in walk order that names it.
C1_DefaultsWhenNotReady ==
    LoadedNotReady =>
        \A i \in DOMAIN Leaves(last.tree) :
            LET e == Leaves(last.tree)[i]
            IN  /\ attrs[LeafAttr(e)] # Missing
                /\ LastForAttr(Leaves(last.tree), i) => attrs[LeafAttr(e)] = LeafDefault(e)

\* A not-ready call has bound the defaults of a tree of three leaves, two
\* of them naming the same attribute.
C1_Witness ==
    /\ last.op = "load" /\ ~last.ready
    /\ last.tree = PyTuple(<< LeafA, LeafK, LeafA2 >>)
    /\ attrs[<< "a" >>] = PyInt("2")
    /\ attrs[<< "k" >>] = PyInt("1")

----------------------------------------------------------------------------
(* C2 *)

\* C2 as stated: after a load execution that found the host ready, every
\* leaf's attribute equals store.get(key, default) of that leaf on the
\* store opened for the named file.
C2_EveryLeafOwnValue ==
    LoadedReady =>
        \A i \in DOMAIN Leaves(last.tree) :
            attrs[LeafAttr(Leaves(last.tree)[i])] = Expected(last.file, Leaves(last.tree)[i])

\* C2, amended: after a load execution (initial call or retry) that found
\* the host ready, every attribute a leaf of the valid tree names equals
\* store.get(key, default) of the last leaf in walk order that names it,
\* on the store opened for the named file.
C2_StoreValuesWhenReady ==
    LoadedReady =>
        /\ settings_obj = last.file
        /\ \A i \in DOMAIN Leaves(last.tree) :
            LET e == Leaves(last.tree)[i]
            IN  LastForAttr(Leaves(last.tree), i) =>
                    attrs[LeafAttr(e)] = Expected(last.file, e)

\* A ready retry has bound a stored value to one attribute and a default to
\* another.
C2_Witness ==
    /\ last.op = "retry" /\ last.ready
    /\ last.tree = PyTuple(<< LeafA, LeafK >>)
    /\ last.file = "S2"
    /\ stores["S2"][<< "k" >>] = PyInt("8")
    /\ stores["S2"][<< "a" >>] = PyInt("8")
    /\ attrs[<< "a" >>] = PyInt("8")
    /\ attrs[<< "k" >>] = PyInt("8")

----------------------------------------------------------------------------
(* C3 *)

\* C3 as stated: a load of a tree with a malformed node ends with the 'Bad
\* setting entry type' error holding that node, having processed exactly
\* the leaves that precede the node in walk order.
C3_MalformedNodeRejected ==
    (IsLoad /\ ~ValidTree(last.tree)) =>
        /\ last.err = BadEntry(WalkOrder(last.tree).bad)
        /\ last.walk = Leaves(last.tree)


----------------------------------------------------------------------------
(* C4 *)

\* A call for the file f found the host not ready and bound the defaults of
\* a valid tree.
CalledNotReady(f) == last.op = "load" /\ ~last.ready /\ last.file = f /\ ValidTree(last.tree)
\* A retry for the file f ran with the host ready: the store is open and
\* every attribute holds the store's value for the last leaf that names it.
RetriedReady(f) ==
    /\ last.op = "retry" /\ last.ready /\ last.file = f
    /\ settings_obj = f
    /\ \A i \in DOMAIN Leaves(last.tree) :
        LastForAttr(Leaves(last.tree), i) =>
            attrs[LeafAttr(Leaves(last.tree)[i])] = Expected(f, Leaves(last.tree)[i])

----------------------------------------------------------------------------
(* C5 *)

----------------------------------------------------------------------------
(* C6 *)

\* C6 as stated: a change notification delivered to the shared handler
\* completes without error.
C6_SharedNotificationCompletes ==
    (last.op = "notify" /\ last.cb.kind = "shared") => last.err = NoErr

----------------------------------------------------------------------------
(* C7 *)

\* A step that delivers a change notification.
NotifyStep == notif' # notif /\ notif' \subseteq notif

\* C7: every per-leaf handler is registered under the leaf it refreshes,
\* and when one fires it binds that leaf's attribute to store.get(key,
\* default) on the object's store and changes no other attribute, nor the
\* store reference, nor the registered handlers.
C7_SparseHandlerFrame ==
    /\ [](\A h \in handlers : h.cb.kind = "sparse" => h.cb.entry = h.token)
    /\ [][(NotifyStep /\ last'.cb.kind = "sparse") =>
            /\ attrs'[LeafAttr(last'.cb.entry)] = Expected(settings_obj, last'.cb.entry)
            /\ \A a \in AttrNames \ { LeafAttr(last'.cb.entry) } : attrs'[a] = attrs[a]
            /\ settings_obj' = settings_obj
            /\ handlers' = handlers
            /\ last'.err = NoErr]_vars

\* The handler of one leaf has fired after an edit and refreshed its
\* attribute, while another attribute bound to the same key keeps the old
\* value.
C7_Witness ==
    /\ last.op = "notify" /\ last.cb.kind = "sparse"
    /\ last.cb.entry = LeafA
    /\ settings_obj = "S1"
    /\ stores["S1"][<< "k" >>] = Missing
    /\ attrs[<< "a" >>] = PyInt("0")
    /\ attrs[<< "k" >>] = PyInt("8")

----------------------------------------------------------------------------
(* C8 *)

\* C8: while the host is not ready, the store reference of an object that
\* load_settings was called on is None; and only a load execution that
\* finds the host ready sets it to a store.
C8_StoreNullUntilReady ==
    /\ []((calls > 0 /\ ~API_READY) => settings_obj = "None")
    /\ [][(settings_obj' # settings_obj /\ settings_obj' \in Files) =>
            /\ API_READY
            /\ last'.op \in { "load", "retry" }
            /\ last'.ready
            /\ settings_obj' = last'.file]_vars

\* A retry has run while the host was still not ready.
C8_Witness ==
    /\ calls > 0 /\ ~API_READY
    /\ last.op = "retry"
    /\ settings_obj = "None"

----------------------------------------------------------------------------
(* C9 *)

\* The entry process_setting_entry was called on last.
LastProcessed == last.walk[Len(last.walk)]

\* C9: process_setting_entry returns, and looks up, the attribute name when
\* the key is '' or Ellipsis, and the key itself otherwise.
C9_OmittedKeyIsAttribute ==
    last.walk # << >> =>
        /\ last.ret = (IF LeafKey(LastProcessed) \in { PyStr(<< >>), Ellipsis }
                       THEN PyStr(LeafAttr(LastProcessed))
                       ELSE LeafKey(LastProcessed))
        /\ attrs[LeafAttr(LastProcessed)] =
                (IF settings_obj \in Files
                 THEN StoreGet(settings_obj, last.ret, LeafDefault(LastProcessed))
                 ELSE LeafDefault(LastProcessed))

\* A leaf with Ellipsis as its key has been bound to the value stored under
\* its attribute name.
C9_Witness ==
    /\ last.walk # << >>
    /\ LastProcessed = LeafA2
    /\ last.ret = PyStr(<< "a" >>)
    /\ settings_obj = "S2"
    /\ attrs[<< "a" >>] = PyInt("8")

----------------------------------------------------------------------------
(* C10 *)

----------------------------------------------------------------------------
(* C11 *)

\* A step in which load_settings is executed: a call of the plugin, or a
\* retry the host runs.
CallStep == calls' = calls + 1
RetryStep == last'.op = "retry" /\ BagCardinality(timers) > 0
\* The pending callbacks a load execution starts from: a retry's own
\* callback has left them.
RetryOf(o) ==
    [kind |-> "loader", file |-> o.file, etree |-> o.tree, auto |-> o.auto,
     sparse |-> o.sparse, delay |-> 500]
ResolvedTree == IF arg_entry_tree = None THEN setting_entries ELSE arg_entry_tree

\* C11 as stated: every load execution that finds the host not ready
\* schedules exactly one retry.
C11_EveryNotReadyExecutionRetries ==
    (IsLoad /\ ~last.ready) => (last.sched = 1 /\ BagIn(RetryOf(last), timers))

\* C11, amended: every load execution that finds the host not ready and
\* ends without an error schedules exactly one retry, with delay 500 and
\* its own settings file, resolved tree, auto_update and sparse_update; an
\* execution that finds the host ready schedules none.  After one call, at
\* most one retry is pending, and none after a ready execution.
C11_RetryBookkeeping ==
    /\ []((IsLoad /\ ~last.ready /\ last.err = NoErr) =>
            /\ last.sched = 1
            /\ last.tree = ResolvedTree
            /\ last.auto = arg_auto_update /\ last.sparse = arg_sparse_update
            /\ BagIn(RetryOf(last), timers))
    /\ []((IsLoad /\ last.ready) => last.sched = 0)
    /\ [][(CallStep /\ ~API_READY /\ last'.err = NoErr) =>
            timers' = timers (+) SetToBag({ RetryOf(last') })]_vars
    /\ [][(RetryStep /\ ~API_READY) =>
            (BagIn(RetryOf(last'), timers) /\ timers' = timers)]_vars
    /\ [][(CallStep /\ API_READY) => timers' = timers]_vars
    /\ [][(RetryStep /\ API_READY) =>
            timers' = timers (-) SetToBag({ RetryOf(last') })]_vars
    /\ [](calls <= 1 => BagCardinality(timers) <= 1)
    /\ []((calls <= 1 /\ IsLoad /\ last.ready) => timers = EmptyBag)

\* The second retry in a row has found the host not ready and is pending
\* again, alone.
C11_Witness ==
    /\ last.op = "retry" /\ ~last.ready
    /\ calls = 1
    /\ last.sched = 1
    /\ last.file = "S2"
    /\ last.tree = PyTuple(<< LeafK, LeafA >>)
    /\ last.auto /\ last.sparse
    /\ timers = SetToBag({ RetryOf(last) })

----------------------------------------------------------------------------
(* C12 *)

\* C12: while the host is not ready no handler is registered; and after the
\* single load_settings call of a plugin with auto_update true has run with
\* the host ready, add_on_change has been called exactly once for every
\* leaf of the valid tree and for nothing else, whatever retries came first.
C12_HandlersRegisteredOnce ==
    /\ ~API_READY => (adds = EmptyBag /\ handlers = {})
    /\ (calls = 1 /\ arg_auto_update /\ settings_obj \in Files
            /\ ValidTree(ResolvedTree)) =>
        /\ \A i \in DOMAIN Leaves(ResolvedTree) :
            CopiesIn(<< settings_obj, Leaves(ResolvedTree)[i] >>, adds) = 1
        /\ BagCardinality(adds) = Len(Leaves(ResolvedTree))

\* A retry of the only call has run with the host ready and registered the
\* handlers of three leaves.
C12_Witness ==
    /\ calls = 1 /\ arg_auto_update
    /\ last.op = "retry" /\ last.ready
    /\ Len(Leaves(ResolvedTree)) = 3
    /\ BagCardinality(adds) = 3

----------------------------------------------------------------------------
(* C13 *)

\* Some leaf of the walk names the attribute a.
NamedIn(walk, a) == \E i \in DOMAIN walk : LeafAttr(walk[i]) = a
\* The only call so far ran not ready and raised: no store, nothing pending.
OnlyCallFailed == calls = 1 /\ settings_obj = "None" /\ timers = EmptyBag
\* What the attribute a holds after the leaves of walk were bound to their
\* defaults on a fresh object.
DefaultAfter(walk, a) ==
    IF NamedIn(walk, a)
    THEN LeafDefault(walk[CHOOSE i \in DOMAIN walk :
                            LeafAttr(walk[i]) = a /\ LastForAttr(walk, i)])
    ELSE Missing

\* C13: a load_settings execution that raises while the host is not ready
\* schedules no retry and leaves the pending callbacks as they were; the
\* leaves before the node that raised are bound to their defaults and no
\* other attribute is touched.  After the only call failed this way nothing
\* is pending, no load or reload ever runs unless the plugin calls again,
\* and the attributes of the later leaves stay unassigned.
C13_MalformedTreeIsFatal ==
    /\ []((IsLoad /\ ~last.ready /\ last.err # NoErr) =>
            /\ last.sched = 0
            /\ ~ValidTree(last.tree)
            /\ last.walk = Leaves(last.tree)
            /\ \A a \in AttrNames :
                NamedIn(last.walk, a) => attrs[a] = DefaultAfter(last.walk, a))
    /\ [][(CallStep /\ ~API_READY /\ last'.err # NoErr) =>
            /\ timers' = timers
            /\ \A a \in AttrNames :
                ~NamedIn(last'.walk, a) => attrs'[a] = attrs[a]]_vars
    /\ [](OnlyCallFailed =>
            \A a \in AttrNames : attrs[a] = DefaultAfter(Leaves(ResolvedTree), a))
    /\ [][(OnlyCallFailed /\ calls' = calls) =>
            (last'.op \notin { "retry", "reload" } /\ attrs' = attrs
                /\ OnlyCallFailed')]_vars

\* The only call found the host not ready and raised at the second node of
\* its tree: the first leaf holds its default, the third was never bound,
\* and the host became ready later with nothing to run.
C13_Witness ==
    /\ OnlyCallFailed
    /\ ResolvedTree = PyTuple(<< LeafK, Int5, LeafA >>)
    /\ API_READY
    /\ last.op = "plugin_loaded"
    /\ attrs[<< "k" >>] = PyInt("1")
    /\ attrs[<< "a" >>] = Missing

----------------------------------------------------------------------------
(* C14 *)

\* A node with 3 elements whose first element is a string.
ThreeWithStrFirst(n) == HasLen(n) /\ PyLen(n) = 3 /\ Elems(n)[1].t = "str"

RECURSIVE ClassWalk(_)
RECURSIVE ClassWalkFrom(_, _)
\* The nodes processed as leaves when every node with 3 elements and a
\* string first is a leaf and every other tuple is a sub-tree walked in
\* order; stop is TRUE when a node that is neither was met.
ClassWalk(n) ==
    IF ThreeWithStrFirst(n) THEN [leaves |-> << n >>, stop |-> FALSE]
    ELSE IF n.t = "tuple" THEN ClassWalkFrom(n.items, 1)
    ELSE [leaves |-> << >>, stop |-> TRUE]
ClassWalkFrom(items, i) ==
    IF i > Len(items) THEN [leaves |-> << >>, stop |-> FALSE]
    ELSE LET h == ClassWalk(items[i])
         IN  IF h.stop THEN h
             ELSE LET r == ClassWalkFrom(items, i + 1)
                  IN  [leaves |-> h.leaves \o r.leaves, stop |-> r.stop]

ThreeLeafTree(tree) ==
    /\ tree.t = "tuple" /\ Len(tree.items) = 3
    /\ \A i \in 1..3 : IsLeafNode(tree.items[i])

\* C14: the nodes a load processes as leaves are, in order, the nodes with
\* 3 elements and a string first, every other tuple being walked through
\* its children in order; a tuple of exactly three leaves is walked as a
\* tree and its three leaves are assigned; the empty tree assigns nothing
\* and raises no error.
C14_NodeClassification ==
    /\ [](IsLoad =>
            /\ last.walk = ClassWalk(last.tree).leaves
            /\ (last.err = NoErr) <=> ~ClassWalk(last.tree).stop)
    /\ []((IsLoad /\ ThreeLeafTree(last.tree)) =>
            /\ last.walk = last.tree.items
            /\ last.err = NoErr
            /\ \A i \in 1..3 : attrs[LeafAttr(last.tree.items[i])] # Missing)
    /\ []((IsLoad /\ last.tree = PyTuple(<< >>)) =>
            (last.walk = << >> /\ last.err = NoErr))
    /\ [][((CallStep \/ RetryStep) /\ last'.tree = PyTuple(<< >>)) =>
            attrs' = attrs]_vars

\* A tuple of three leaves has been walked as a tree, with the host ready.
C14_Witness ==
    /\ last.op = "load" /\ last.ready
    /\ last.tree = PyTuple(<< LeafA, LeafK, LeafA2 >>)
    /\ last.walk = << LeafA, LeafK, LeafA2 >>
    /\ attrs[<< "a" >>] # Missing /\ attrs[<< "k" >>] # Missing

----------------------------------------------------------------------------
(* C15 *)

\* C15 as stated: every change notification delivered to the shared handler
\* at a time t is followed by a re-walk of the tree at a time at or after t.
C15_NoChangeLost ==
    \A t \in 0..MaxTime :
        (last.op = "notify" /\ last.cb.kind = "shared" /\ last.time = t)
            ~> (\E i \in DOMAIN rewalks : rewalks[i] >= t)

----------------------------------------------------------------------------
(* C16 *)

\* C16: every load_settings execution replaces the store reference (by the
\* store of its settings file when the host is ready, by None otherwise);
\* no other step changes it; the readiness flag never goes back to false,
\* a store is only ever set while it is true, and so a reference that is a
\* store is a store in every later state.
C16_StoreReferenceNeverRegresses ==
    /\ [][API_READY => API_READY']_vars
    /\ []((settings_obj \in Files) => API_READY)
    /\ [][(settings_obj \in Files) => (settings_obj' \in Files)]_vars
    /\ [][(CallStep \/ RetryStep) =>
            settings_obj' = (IF API_READY THEN last'.file ELSE "None")]_vars
    /\ [][~(CallStep \/ RetryStep) => settings_obj' = settings_obj]_vars

\* A second call has replaced the store of the first, whose handlers are
\* still registered.
C16_Witness ==
    /\ calls = 2
    /\ last.op = "load" /\ last.file = "S2"
    /\ settings_obj = "S2"
    /\ \E h \in handlers : h.store = "S1"

----------------------------------------------------------------------------
(* C17 *)

\* Two leaves of the walk name one attribute.
DuplicateIn(ls) == \E i, j \in DOMAIN ls : i < j /\ LeafAttr(ls[i]) = LeafAttr(ls[j])

\* C17: a load of a valid tree processes its leaves in depth-first,
\* left-to-right order, and every attribute then holds the value resolved
\* for the last leaf in that order that names it: the store's value under
\* that leaf's key, or that leaf's default.
C17_LastLeafWins ==
    (IsLoad /\ ValidTree(last.tree)) =>
        /\ last.walk = Leaves(last.tree)
        /\ \A i \in DOMAIN last.walk :
            LastForAttr(last.walk, i) =>
                attrs[LeafAttr(last.walk[i])] = Expected(settings_obj, last.walk[i])

\* Two leaves name the attribute a; the store holds a value for the key of
\* the later one, which differs from what the earlier leaf resolves to.
C17_Witness ==
    /\ last.op = "load" /\ last.ready
    /\ last.tree = PyTuple(<< LeafA, LeafK, LeafA2 >>)
    /\ DuplicateIn(last.walk)
    /\ Expected(settings_obj, LeafA) # Expected(settings_obj, LeafA2)
    /\ attrs[<< "a" >>] = PyInt("8")

----------------------------------------------------------------------------
(* C18 *)

\* C18: when the handler of a leaf fires after the object's store reference
\* has moved to another store than the one the handler is registered on,
\* the leaf's attribute is bound to the other store's value under the
\* leaf's key (the leaf's default when that store has none), and the store
\* reference stays where the last load_settings execution put it.
C18_SparseHandlerUsesCurrentStore ==
    /\ [][(NotifyStep /\ last'.cb.kind = "sparse" /\ last'.file # settings_obj) =>
            /\ \E h \in handlers :
                h.store = last'.file /\ h.token = last'.cb.entry /\ h.cb = last'.cb
            /\ settings_obj \in Files
            /\ attrs'[LeafAttr(last'.cb.entry)] =
                    StoreGet(settings_obj, ResolvedKey(last'.cb.entry),
                             LeafDefault(last'.cb.entry))
            /\ settings_obj' = settings_obj]_vars
    /\ [][(CallStep /\ API_READY) => settings_obj' = last'.file]_vars

\* After a second call for S2, the handler the first call registered on S1
\* for the leaf ('a', 'k', 0) has fired: S1 holds 8 under 'k', S2 holds
\* nothing, and the attribute is the default.
C18_Witness ==
    /\ calls = 2
    /\ last.op = "notify" /\ last.cb.kind = "sparse"
    /\ last.cb.entry = LeafA
    /\ last.file = "S1"
    /\ settings_obj = "S2"
    /\ stores["S1"][<< "k" >>] = PyInt("8")
    /\ stores["S2"][<< "k" >>] = Missing
    /\ attrs[<< "a" >>] = PyInt("0")

====
